---------------------------- MODULE Spec2Model ----------------------------
(***************************************************************************)
(* The amortization schedule engine of src/services/loanCalculator.ts:     *)
(* generateSchedule with its helpers round2, calculatePMT, getUTCDate,     *)
(* getDaysBetween, addMonths and calculateAccurateInterest.                *)
(*                                                                         *)
(* Representation.                                                         *)
(*  - Money is an integer number of units of 0.005 currency (half a cent), *)
(*    so that a principal that is not a whole number of cents exists; a    *)
(*    cent is Cent units.  Intermediate real values are exact fractions    *)
(*    Num / Den and round2 rounds them half up to whole cents, which is    *)
(*    what Math.round((x + EPSILON) * 100) / 100 computes on reals.        *)
(*  - An annual rate is an integer number of percent (120 is the JS value  *)
(*    1.2).                                                                *)
(*  - A date string 'YYYY-MM-DD' is the number of days from 2023-01-01;    *)
(*    comparing two such strings is comparing the numbers.  NoDate is the  *)
(*    empty string.  A JS Date at UTC midnight is the same day number.     *)
(*  - tz is the host time zone: 1 for a zone west of UTC, where the local  *)
(*    calendar day of a UTC midnight is the day before, 0 otherwise.       *)
(*  - BadDate is a date string that cannot be parsed; getUTCDate answers   *)
(*    it with the clock, now.                                              *)
(*                                                                         *)
(* Specifications.  Spec is one call with well-formed dates; SpecOrphans   *)
(* adds a caller that calls again without the events outside the loan's    *)
(* life; SpecCalls is any call (degenerate loans, principals of a few      *)
(* cents, an unparseable first payment date), possibly made twice.         *)
(***************************************************************************)
EXTENDS Integers, Sequences, FiniteSets, TLC

VARIABLES
  input,                   \* LoanInput: the loan terms of the call
  repayments,              \* the caller's RepaymentEvent[] argument
  rateChanges,             \* the caller's RateChangeEvent[] argument
  tz,                      \* host time zone (see above)
  now,                     \* the day new Date() gives during the call
  pc,                      \* "start", "period", "event", "done"
  schedule,                \* RepaymentRow[] built so far
  currentBalance,
  currentAnnualRate,
  lastTransactionDateStr,
  currentPMT,
  sortedRepayments,
  sortedRateChanges,
  i,                       \* period index of the for loop
  periodEvents,            \* the sorted events of period i
  k,                       \* position of the next event in periodEvents
  pmtBasis,                \* history: balance, rate and period of the last installment
                           \* computation, and whether an event caused it
  rateBefore,              \* history: the annual rate replaced by the last rate change
  consumed,                \* history: the rate changes and extra repayments processed
  earlier                  \* history: what an earlier call of the caller returned

vars == << input, repayments, rateChanges, tz, pc, schedule, currentBalance,
           currentAnnualRate, lastTransactionDateStr, currentPMT,
           sortedRepayments, sortedRateChanges, i, periodEvents, k,
           pmtBasis, rateBefore, now, consumed, earlier >>

----------------------------------------------------------------------------
(* Bounds of the model *)

MaxPeriods == 3            \* totalPeriods is at most this
MaxEvents == 2             \* events supplied to a call, both lists together

----------------------------------------------------------------------------
(* Units and program constants *)

Cent == 2                  \* units in 0.01: round2 keeps 2 decimals
Epsilon == 1               \* 0.005: the loop guards
SnapThreshold == 10        \* 0.05: the payoff snap
MonthsPerYear == 12
DaysPerYear == 360
Percent == 100             \* annual rates are in percent
StdMonthMinDays == 28
StdMonthMaxDays == 31

Max(a, b) == IF a >= b THEN a ELSE b

RECURSIVE Gcd(_, _)
Gcd(a, b) == IF b = 0 THEN a ELSE Gcd(b, a % b)

RECURSIVE Pow(_, _)
Pow(b, e) == IF e <= 0 THEN 1 ELSE b * Pow(b, e - 1)

(* round2 of the real num / den (den > 0), both in units: the nearest whole
   cent, a half rounding up (Math.round) *)
round2(num, den) ==
  Cent * ((2 * num + Cent * den) \div (2 * Cent * den))

(* calculatePMT cutting principal / periods down to whole cents at rate 0 *)
calculatePMTTruncating(principal, annualRate, periods) ==
  IF periods <= 0 \/ principal <= 0 THEN 0
  ELSE IF annualRate <= 0 THEN Cent * (principal \div (Cent * periods))
  ELSE LET g   == Gcd(annualRate, MonthsPerYear * Percent)
           a   == annualRate \div g
           b   == (MonthsPerYear * Percent) \div g
           up  == Pow(a + b, periods)
           dn  == Pow(b, periods)
       IN  round2(a * principal * up, b * (up - dn))

(* calculatePMT guarding the periods only *)
calculatePMTGuardingPeriods(principal, annualRate, periods) ==
  IF periods <= 0 THEN 0
  ELSE IF annualRate <= 0 THEN round2(principal, periods)
  ELSE LET g   == Gcd(annualRate, MonthsPerYear * Percent)
           a   == annualRate \div g
           b   == (MonthsPerYear * Percent) \div g
           up  == Pow(a + b, periods)
           dn  == Pow(b, periods)
       IN  round2(a * principal * up, b * (up - dn))

(* calculatePMT; monthlyRate is annualRate / 12, passed as the annual rate *)
calculatePMT(principal, annualRate, periods) ==
  IF periods <= 0 \/ principal <= 0 THEN 0
  ELSE IF annualRate <= 0 THEN round2(principal, periods)
  ELSE LET g   == Gcd(annualRate, MonthsPerYear * Percent)
           a   == annualRate \div g
           b   == (MonthsPerYear * Percent) \div g
           up  == Pow(a + b, periods)
           dn  == Pow(b, periods)
       IN  round2(a * principal * up, b * (up - dn))

----------------------------------------------------------------------------
(* Calendar: months are counted from January 2023 *)

MaxMonth == 35

DaysInMonth(m) ==
  LET y  == 2023 + (m \div 12)
      mm == m % 12
      leap == (y % 4 = 0 /\ y % 100 # 0) \/ y % 400 = 0
  IN  IF mm = 1 THEN (IF leap THEN 29 ELSE 28)
      ELSE IF mm \in {3, 5, 8, 10} THEN 30 ELSE 31

(* The day numbers of the first days of months 0 .. m, as a tuple *)
RECURSIVE MonthStartsUpTo(_)
MonthStartsUpTo(m) ==
  IF m = 0 THEN << 0 >>
  ELSE LET prev == MonthStartsUpTo(m - 1)
       IN  Append(prev, prev[m] + DaysInMonth(m - 1))

MonthStarts == MonthStartsUpTo(MaxMonth + 1)
MonthStart(m) == MonthStarts[m + 1]

(* The month of every day of the calendar, as a tuple *)
RECURSIVE DayMonthsUpTo(_)
DayMonthsUpTo(m) ==
  IF m < 0 THEN << >>
  ELSE DayMonthsUpTo(m - 1) \o [d \in 1 .. DaysInMonth(m) |-> m]

DayMonths == DayMonthsUpTo(MaxMonth)

(* getUTCMonth (with the year) and getUTCDate of a day *)
MonthOf(d) == DayMonths[d + 1]
DayOfMonth(d) == d - MonthStart(MonthOf(d)) + 1

(* Date.UTC(year, month, day) with month and day overflowing forward *)
DateUTC(m, day) == MonthStart(m) + day - 1

NoDate == 0 - 1
NoPrincipal == 0 - 1000000 \* a principal that is missing (undefined)
BadDate == 0 - 2           \* a date string new Date() cannot parse

(* getUTCDate: the local calendar day of the parsed instant, as a UTC midnight;
   the clock when the string cannot be parsed *)
getUTCDate(d) == IF d = BadDate THEN now ELSE d - tz

getDaysBetween(d1, d2) == Max(0, getUTCDate(d2) - getUTCDate(d1))

(* addMonths: setUTCMonth keeps the day of the month and rolls over *)
addMonths(date, months) == DateUTC(MonthOf(date) + months, DayOfMonth(date))

(* calculateAccurateInterest: whole months at rate / 12 and the remaining days
   at rate / 360.  The operator gives the numerator of the real result over
   the denominator InterestDen. *)
RECURSIVE FullMonths(_, _, _)
FullMonths(start, end, fullMonths) ==
  IF addMonths(start, fullMonths + 1) <= end
  THEN FullMonths(start, end, fullMonths + 1)
  ELSE fullMonths

InterestDen == DaysPerYear * Percent

calculateAccurateInterest(principal, annualRate, startDateStr, endDateStr) ==
  LET start == getUTCDate(startDateStr)
      end   == getUTCDate(endDateStr)
  IN  IF start >= end THEN 0
      ELSE LET fullMonths == FullMonths(start, end, 0)
               afterFullMonthsDate == addMonths(start, fullMonths)
               extraDays == getDaysBetween(afterFullMonthsDate, endDateStr)
           IN  principal * annualRate
                 * (fullMonths * (DaysPerYear \div MonthsPerYear) + extraDays)

----------------------------------------------------------------------------
(* Events and their ordering *)

(* The list left in the caller's order *)
Unsorted(s) == s

(* Array.prototype.sort with (a, b) => a.date.localeCompare(b.date): a stable
   sort by date *)
RECURSIVE InsertByDate(_, _)
InsertByDate(sorted, e) ==
  IF sorted = << >> \/ sorted[Len(sorted)].date <= e.date
  THEN Append(sorted, e)
  ELSE Append(InsertByDate(SubSeq(sorted, 1, Len(sorted) - 1), e), sorted[Len(sorted)])

RECURSIVE SortRec(_)
SortRec(s) ==
  IF s = << >> THEN << >>
  ELSE InsertByDate(SortRec(SubSeq(s, 1, Len(s) - 1)), s[Len(s)])

SortByDate(s) == SortRec(s)

(* A window without its lower end *)
InWindowNoLowerEnd(date, lo, hi) == date <= hi

(* A window that includes its lower end *)
InWindowClosed(date, lo, hi) == date >= lo /\ date <= hi

(* Lines 115-116: date > lastTransactionDateStr && date <= scheduledDateStr *)
InWindow(date, lo, hi) == date > lo /\ date <= hi

RECURSIVE Filter(_, _, _)
Filter(s, lo, hi) ==
  IF s = << >> THEN << >>
  ELSE LET rest == Filter(Tail(s), lo, hi)
       IN  IF InWindow(Head(s).date, lo, hi) THEN << Head(s) >> \o rest ELSE rest

RateEvents(s) == [j \in 1 .. Len(s) |-> [type |-> "rate", date |-> s[j].date, val |-> s[j].newAnnualRate]]
ExtraEvents(s) == [j \in 1 .. Len(s) |-> [type |-> "extra", date |-> s[j].date, val |-> s[j].amount]]

(* The date of period p on the payment day of firstPaymentDateObj:
   Date.UTC(startYear, startMonth + (p - 1), paymentDay), and setUTCDate(0)
   (the last day of the month before) when the day rolled over *)
MonthlyDate(firstPaymentDateObj, p) ==
  LET paymentDay == DayOfMonth(firstPaymentDateObj)
      d == DateUTC(MonthOf(firstPaymentDateObj) + (p - 1), paymentDay)
  IN  IF DayOfMonth(d) # paymentDay THEN MonthStart(MonthOf(d)) - 1 ELSE d

(* scheduledDateStr of period p *)
ScheduledDate(p) ==
  IF p = input.totalPeriods /\ input.maturityDate # NoDate
  THEN input.maturityDate
  ELSE MonthlyDate(getUTCDate(input.firstPaymentDate), p)

(* The events of period p with the extra repayments collected ahead of the
   rate changes *)
PeriodEventsExtrasFirst(p, last) ==
  LET scheduledDateStr == ScheduledDate(p)
  IN  SortByDate(ExtraEvents(Filter(sortedRepayments, last, scheduledDateStr))
                 \o RateEvents(Filter(sortedRateChanges, last, scheduledDateStr))
                 \o << [type |-> "scheduled", date |-> scheduledDateStr, val |-> 0] >>)

(* The events of period p with the scheduled installment collected first *)
PeriodEventsScheduledFirst(p, last) ==
  LET scheduledDateStr == ScheduledDate(p)
  IN  SortByDate(<< [type |-> "scheduled", date |-> scheduledDateStr, val |-> 0] >>
                 \o RateEvents(Filter(sortedRateChanges, last, scheduledDateStr))
                 \o ExtraEvents(Filter(sortedRepayments, last, scheduledDateStr)))

(* The events of period p, given the last transaction date *)
PeriodEvents(p, last) ==
  LET scheduledDateStr == ScheduledDate(p)
  IN  SortByDate(RateEvents(Filter(sortedRateChanges, last, scheduledDateStr))
                 \o ExtraEvents(Filter(sortedRepayments, last, scheduledDateStr))
                 \o << [type |-> "scheduled", date |-> scheduledDateStr, val |-> 0] >>)

----------------------------------------------------------------------------
(* The inputs of a call *)

D(m, day) == DateUTC(m, day)

Principals == {0, 20000, 20001}          \* 0, 100.00 and 100.005
AnnualRates == {0, 120}
NewRates == {240}
Amounts == {1000, 60000}                 \* 5.00 and 300.00
(* << loanDate, firstPaymentDate >> in 2024: 01-10 and 01-31, 01-26 and
   02-15, and 03-01 and 02-15, a loan dated after its first installment *)
DateTerms == { << D(12, 10), D(12, 31) >>, << D(12, 26), D(13, 15) >>, << D(14, 1), D(13, 15) >> }
(* A maturity date is absent, or this many days from the monthly date of the
   final period *)
MaturityOffsets == {3, 0 - 35}
EventDates == { D(12, 25), D(13, 15), D(14, 10) }   \* 2024-01-25, 02-15, 03-10

SeqsUpTo(S, n) == UNION { [1 .. m -> S] : m \in 0 .. n }

RepaymentEvent == [date : EventDates, amount : Amounts]
RateChangeEvent == [date : EventDates, newAnnualRate : NewRates]

(* The engine before a call: nothing of generateSchedule has run *)
NotCalled ==
  /\ pc = "start"
  /\ schedule = << >>
  /\ currentBalance = 0
  /\ currentAnnualRate = 0
  /\ lastTransactionDateStr = NoDate
  /\ currentPMT = 0
  /\ sortedRepayments = << >>
  /\ sortedRateChanges = << >>
  /\ i = 0
  /\ periodEvents = << >>
  /\ k = 0
  /\ pmtBasis = [balance |-> 0, rate |-> 0, period |-> 0, byEvent |-> FALSE]
  /\ rateBefore = 0
  /\ consumed = << >>

(* The caller has not called before *)
NoEarlierCall == [called |-> FALSE, schedule |-> << >>, rate |-> 0, pmt |-> 0,
                  dropped |-> << >>]

Init ==
  /\ \E principal \in Principals, annualRate \in AnnualRates,
        totalPeriods \in 1 .. MaxPeriods, dt \in DateTerms :
       \E maturityDate \in {NoDate} \cup { MonthlyDate(dt[2], totalPeriods) + o : o \in MaturityOffsets } :
         input = [principal |-> principal, annualRate |-> annualRate,
                  loanDate |-> dt[1], firstPaymentDate |-> dt[2],
                  maturityDate |-> maturityDate, totalPeriods |-> totalPeriods]
  /\ \E n \in 0 .. MaxEvents :
       /\ repayments \in SeqsUpTo(RepaymentEvent, n)
       /\ rateChanges \in SeqsUpTo(RateChangeEvent, MaxEvents - n)
  /\ tz \in {0, 1}
  /\ now = input.loanDate
  /\ earlier = NoEarlierCall
  /\ NotCalled

----------------------------------------------------------------------------
(* generateSchedule *)

(* Line 82: !input.principal || input.principal <= 0 *)
NoLoan(principal) == principal = NoPrincipal \/ principal = 0 \/ principal <= 0

(* The caller's array with its elements sorted in place by date *)
SortedInPlace(s) == SortByDate(s)

(* Lines 92-93: [...s].sort(...) sorts a copy; this is the caller's array s
   after it *)
LeftInCallerArray(s) == s

(* Lines 82-98: the guard on the principal and the initial engine state *)
Call ==
  /\ pc = "start"
  /\ IF NoLoan(input.principal)
     THEN /\ pc' = "done"
          /\ UNCHANGED << repayments, rateChanges, currentBalance, currentAnnualRate,
                          lastTransactionDateStr, currentPMT, sortedRepayments,
                          sortedRateChanges, i, pmtBasis >>
     ELSE /\ pc' = "period"
          /\ repayments' = LeftInCallerArray(repayments)
          /\ rateChanges' = LeftInCallerArray(rateChanges)
          /\ currentBalance' = input.principal
          /\ currentAnnualRate' = input.annualRate
          /\ lastTransactionDateStr' = input.loanDate
          /\ currentPMT' = calculatePMT(input.principal, input.annualRate, input.totalPeriods)
          /\ pmtBasis' = [balance |-> input.principal, rate |-> input.annualRate,
                          period |-> 1, byEvent |-> FALSE]
          /\ sortedRepayments' = SortByDate(repayments)
          /\ sortedRateChanges' = SortByDate(rateChanges)
          /\ i' = 1
  /\ UNCHANGED << input, tz, now, earlier, schedule, periodEvents, k, rateBefore, consumed >>

(* Lines 100-118: the head of the period loop and the events of the period *)
BeginPeriod ==
  /\ pc = "period"
  /\ i <= input.totalPeriods
  /\ currentBalance > Epsilon
  /\ periodEvents' = PeriodEvents(i, lastTransactionDateStr)
  /\ k' = 1
  /\ pc' = "event"
  /\ UNCHANGED << input, repayments, rateChanges, tz, now, earlier, schedule, currentBalance,
                  currentAnnualRate, lastTransactionDateStr, currentPMT,
                  sortedRepayments, sortedRateChanges, i, pmtBasis, rateBefore,
                  consumed >>

(* Lines 100-101, 205: the period loop ends and the schedule is returned *)
Return ==
  /\ pc = "period"
  /\ (i > input.totalPeriods \/ currentBalance <= Epsilon)
  /\ pc' = "done"
  /\ UNCHANGED << input, repayments, rateChanges, tz, now, earlier, schedule, currentBalance,
                  currentAnnualRate, lastTransactionDateStr, currentPMT,
                  sortedRepayments, sortedRateChanges, i, periodEvents, k,
                  pmtBasis, rateBefore, consumed >>

(* Lines 120-121: the event loop ends (no event left, or the balance is paid) *)
EndPeriod ==
  /\ pc = "event"
  /\ (k > Len(periodEvents) \/ currentBalance <= Epsilon)
  /\ i' = i + 1
  /\ pc' = "period"
  /\ UNCHANGED << input, repayments, rateChanges, tz, now, earlier, schedule, currentBalance,
                  currentAnnualRate, lastTransactionDateStr, currentPMT,
                  sortedRepayments, sortedRateChanges, periodEvents, k,
                  pmtBasis, rateBefore, consumed >>

(* The event loop without its guard on the balance *)
HasEventNoBreak == pc = "event" /\ k <= Len(periodEvents)

(* The event the event loop is about to process *)
HasEvent == pc = "event" /\ k <= Len(periodEvents) /\ currentBalance > Epsilon
event == periodEvents[k]

(* The periods left after the current one *)
RemainingPeriodsExcludingCurrent(p) == input.totalPeriods - p

(* totalPeriods - i + 1: the periods left, the current one included *)
RemainingPeriods(p) == input.totalPeriods - p + 1

(* A rate change that also advances the last transaction date *)
ApplyRateAdvancesDate ==
  /\ pc = "event" /\ k <= Len(periodEvents) /\ currentBalance > Epsilon
  /\ periodEvents[k].type = "rate"
  /\ currentAnnualRate' = periodEvents[k].val
  /\ currentPMT' = calculatePMT(currentBalance, periodEvents[k].val, RemainingPeriods(i))
  /\ pmtBasis' = [balance |-> currentBalance, rate |-> periodEvents[k].val, period |-> i,
                  byEvent |-> TRUE]
  /\ rateBefore' = currentAnnualRate
  /\ lastTransactionDateStr' = periodEvents[k].date
  /\ consumed' = Append(consumed, periodEvents[k])
  /\ k' = k + 1
  /\ UNCHANGED << input, repayments, rateChanges, tz, now, earlier, pc, schedule, currentBalance,
                  sortedRepayments, sortedRateChanges, i, periodEvents >>

(* Lines 123-130: a rate change *)
ApplyRate ==
  /\ HasEvent
  /\ event.type = "rate"
  /\ currentAnnualRate' = event.val
  /\ currentPMT' = calculatePMT(currentBalance, event.val, RemainingPeriods(i))
  /\ pmtBasis' = [balance |-> currentBalance, rate |-> event.val, period |-> i,
                  byEvent |-> TRUE]
  /\ rateBefore' = currentAnnualRate
  /\ consumed' = Append(consumed, event)
  /\ k' = k + 1
  /\ UNCHANGED << input, repayments, rateChanges, tz, now, earlier, pc, schedule, currentBalance,
                  lastTransactionDateStr, sortedRepayments, sortedRateChanges, i,
                  periodEvents >>

(* Lines 137-147: the interest of a row *)
isStandardMonth ==
  /\ i > 1
  /\ i < input.totalPeriods
  /\ Len(periodEvents) = 1
  /\ getDaysBetween(lastTransactionDateStr, event.date) >= StdMonthMinDays
  /\ getDaysBetween(lastTransactionDateStr, event.date) <= StdMonthMaxDays

Interest ==
  IF isStandardMonth /\ event.type = "scheduled"
  THEN round2(currentBalance * currentAnnualRate, MonthsPerYear * Percent)
  ELSE round2(calculateAccurateInterest(currentBalance, currentAnnualRate,
                                        lastTransactionDateStr, event.date),
              InterestDen)

(* The signed balance reported as it is *)
ReportedBalanceUnclamped(balance) == balance

(* Math.max(0, currentBalance) of a row *)
ReportedBalance(balance) == Max(0, balance)

(* The principal added to the balance *)
BalanceAfterAdded(balance, principal) == round2(balance + principal, 1)

(* round2(currentBalance - principal): the balance after a row *)
BalanceAfter(balance, principal) == round2(balance - principal, 1)

(* The principal of an extra row floored at 0 *)
PrincipalReductionFloored(val, interest) == Max(0, round2(val - interest, 1))

(* Line 151: the principal of an extra row *)
PrincipalReduction(val, interest) == round2(val - interest, 1)

(* The installment reported as the payment of a scheduled row *)
ScheduledPaymentIsPMT(roundedPrinc, interest) == currentPMT

(* Line 192: the payment of a scheduled row *)
ScheduledPayment(roundedPrinc, interest) == round2(roundedPrinc + interest, 1)

(* Lines 149-168 and 201: an extra repayment *)
ApplyExtra ==
  /\ HasEvent
  /\ event.type = "extra"
  /\ LET interest == Interest
         principalReduction == PrincipalReduction(event.val, interest)
         balance == BalanceAfter(currentBalance, principalReduction)
     IN  /\ currentBalance' = balance
         /\ schedule' = Append(schedule,
              [period |-> i, date |-> event.date, payment |-> event.val,
               principal |-> principalReduction, interest |-> interest,
               remainingBalance |-> ReportedBalance(balance),
               isAdjusted |-> TRUE, eventType |-> "extra"])
         /\ currentPMT' = calculatePMT(balance, currentAnnualRate, RemainingPeriods(i))
         /\ pmtBasis' = [balance |-> balance, rate |-> currentAnnualRate, period |-> i,
                         byEvent |-> TRUE]
  /\ lastTransactionDateStr' = event.date
  /\ consumed' = Append(consumed, event)
  /\ k' = k + 1
  /\ UNCHANGED << input, repayments, rateChanges, tz, now, earlier, pc, currentAnnualRate,
                  sortedRepayments, sortedRateChanges, i, periodEvents, rateBefore >>

(* The principal of a scheduled row without the payoff of the final period
   and without the payoff snap *)
ScheduledPrincipalNoPayoff(interest) ==
  IF i = 1
  THEN round2(currentPMT * (MonthsPerYear * Percent) - currentBalance * currentAnnualRate,
              MonthsPerYear * Percent)
  ELSE currentPMT - interest

(* The principal of a scheduled row without the snap of line 185 *)
ScheduledPrincipalNoSnap(interest) ==
  LET den == MonthsPerYear * Percent
  IN  round2(IF i = 1
             THEN currentPMT * den - currentBalance * currentAnnualRate
             ELSE IF i = input.totalPeriods \/ currentBalance < currentPMT
                  THEN currentBalance * den
                  ELSE (currentPMT - interest) * den,
             den)

(* Lines 173-185: the principal of a scheduled row; interest is the row's *)
ScheduledPrincipal(interest) ==
  LET den == MonthsPerYear * Percent
      principalPortionNum ==
        IF i = 1
        THEN currentPMT * den - currentBalance * currentAnnualRate
        ELSE IF i = input.totalPeriods \/ currentBalance < currentPMT
             THEN currentBalance * den
             ELSE (currentPMT - interest) * den
      roundedPrinc == round2(principalPortionNum, den)
  IN  IF currentBalance - roundedPrinc < SnapThreshold THEN currentBalance ELSE roundedPrinc

(* A scheduled row flagged as adjusted whatever its period collected *)
isAdjustedAlways(events) == TRUE

(* A scheduled row flagged as adjusted only by an extra repayment *)
isAdjustedByExtra(events) == \E j \in 1 .. Len(events) : events[j].type = "extra"

(* Line 196: isAdjusted of a scheduled row *)
isAdjusted(events) == Len(events) > 1

(* Lines 169-201: the scheduled installment *)
ApplyScheduled ==
  /\ HasEvent
  /\ event.type = "scheduled"
  /\ LET interest == Interest
         roundedPrinc == ScheduledPrincipal(interest)
         balance == BalanceAfter(currentBalance, roundedPrinc)
     IN  /\ currentBalance' = balance
         /\ schedule' = Append(schedule,
              [period |-> i, date |-> event.date,
               payment |-> ScheduledPayment(roundedPrinc, interest),
               principal |-> roundedPrinc, interest |-> interest,
               remainingBalance |-> ReportedBalance(balance),
               isAdjusted |-> isAdjusted(periodEvents), eventType |-> "scheduled"])
  /\ lastTransactionDateStr' = event.date
  /\ k' = k + 1
  /\ UNCHANGED << input, repayments, rateChanges, tz, now, earlier, pc, currentAnnualRate, currentPMT,
                  sortedRepayments, sortedRateChanges, i, periodEvents, pmtBasis,
                  rateBefore, consumed >>

Next ==
  \/ Call
  \/ BeginPeriod
  \/ ApplyRate
  \/ ApplyExtra
  \/ ApplyScheduled
  \/ EndPeriod
  \/ Return

Spec == Init /\ [][Next]_vars

----------------------------------------------------------------------------
(* A caller that calls again without the events outside the loan's life *)

(* The scheduled date of the final period: the maturity date, when given *)
FinalDate == ScheduledDate(input.totalPeriods)

(* An event dated before the disbursement date or after the maturity *)
Orphan(e) == e.date < input.loanDate \/ e.date > FinalDate

RECURSIVE Orphans(_)
Orphans(s) ==
  IF s = << >> THEN << >>
  ELSE IF Orphan(Head(s)) THEN << Head(s) >> \o Orphans(Tail(s)) ELSE Orphans(Tail(s))

RECURSIVE WithoutOrphans(_)
WithoutOrphans(s) ==
  IF s = << >> THEN << >>
  ELSE IF Orphan(Head(s)) THEN WithoutOrphans(Tail(s))
       ELSE << Head(s) >> \o WithoutOrphans(Tail(s))

(* The engine is back before a call *)
Reset ==
  /\ pc' = "start"
  /\ schedule' = << >>
  /\ currentBalance' = 0
  /\ currentAnnualRate' = 0
  /\ lastTransactionDateStr' = NoDate
  /\ currentPMT' = 0
  /\ sortedRepayments' = << >>
  /\ sortedRateChanges' = << >>
  /\ i' = 0
  /\ periodEvents' = << >>
  /\ k' = 0
  /\ pmtBasis' = [balance |-> 0, rate |-> 0, period |-> 0, byEvent |-> FALSE]
  /\ rateBefore' = 0
  /\ consumed' = << >>

(* The caller keeps what the call returned, takes the orphans out of both
   lists and calls again with the same loan terms on the same host *)
CallWithoutOrphans ==
  /\ pc = "done"
  /\ ~earlier.called
  /\ Orphans(repayments) \o Orphans(rateChanges) # << >>
  /\ earlier' = [called |-> TRUE, schedule |-> schedule, rate |-> currentAnnualRate,
                 pmt |-> currentPMT,
                 dropped |-> Orphans(repayments) \o Orphans(rateChanges)]
  /\ repayments' = WithoutOrphans(repayments)
  /\ rateChanges' = WithoutOrphans(rateChanges)
  /\ Reset
  /\ UNCHANGED << input, tz, now >>

NextOrphans == Next \/ CallWithoutOrphans

SpecOrphans == Init /\ [][NextOrphans]_vars

----------------------------------------------------------------------------
(* Calls of any kind: loans that are no loans, principals of a few cents, a
   first payment date that cannot be parsed; and a caller that calls twice
   with the same arguments, the second time on any host and day *)

(* missing, -100.00, 0, 0.005, 0.01, 0.14, 100.00 and 100.005 *)
CallPrincipals == {NoPrincipal, 0 - 20000, 0, 1, 2, 28, 20000, 20001}
CallPeriods == (0 - 1) .. MaxPeriods
CallFirstPaymentDates == {D(12, 31), BadDate}
CallMaturityDates == {NoDate, D(14, 3)}
Clocks == {D(12, 31), D(13, 15)}         \* the day of a call: 2024-01-31, 02-15

InitCalls ==
  /\ \E principal \in CallPrincipals, annualRate \in AnnualRates,
        totalPeriods \in CallPeriods, firstPaymentDate \in CallFirstPaymentDates,
        maturityDate \in CallMaturityDates :
       input = [principal |-> principal, annualRate |-> annualRate,
                loanDate |-> D(12, 10), firstPaymentDate |-> firstPaymentDate,
                maturityDate |-> maturityDate, totalPeriods |-> totalPeriods]
  /\ \E n \in 0 .. MaxEvents - 1 :
       /\ repayments \in SeqsUpTo(RepaymentEvent, n)
       /\ rateChanges \in SeqsUpTo(RateChangeEvent, MaxEvents - 1 - n)
  /\ tz = 0
  /\ now = D(12, 31)
  /\ earlier = NoEarlierCall
  /\ NotCalled

(* The caller keeps what the call returned and calls again with the same
   arguments *)
CallAgain ==
  /\ pc = "done"
  /\ ~earlier.called
  /\ earlier' = [called |-> TRUE, schedule |-> schedule, rate |-> currentAnnualRate,
                 pmt |-> currentPMT, dropped |-> << >>]
  /\ tz' \in {0, 1}
  /\ now' \in Clocks
  /\ Reset
  /\ UNCHANGED << input, repayments, rateChanges >>

NextCalls == Next \/ CallAgain

SpecCalls == InitCalls /\ [][NextCalls]_vars

----------------------------------------------------------------------------
(* Properties of the schedule *)

Abs(x) == IF x < 0 THEN 0 - x ELSE x
Rows == 1 .. Len(schedule)
WholeCents(x) == x % Cent = 0
(* The balance a row starts from: the loan principal, or the balance the row
   before reports *)
BalanceBefore(j) == IF j = 1 THEN input.principal ELSE schedule[j - 1].remainingBalance

(* C1: in every row, scheduled or extra, principal + interest equals payment
   to 2 decimal places: the two round to the same cent and differ by less
   than a cent. *)
C1_Conservation ==
  \A j \in Rows :
    /\ round2(schedule[j].principal + schedule[j].interest, 1) = round2(schedule[j].payment, 1)
    /\ Abs(schedule[j].principal + schedule[j].interest - schedule[j].payment) < Cent

(* C1 witness: a finished schedule with an extra row and a scheduled row that
   both carry interest *)
C1_Witness ==
  /\ pc = "done"
  /\ \E j \in Rows : schedule[j].eventType = "extra" /\ schedule[j].interest > 0
  /\ \E j \in Rows : schedule[j].eventType = "scheduled" /\ schedule[j].interest > 0
                       /\ schedule[j].payment # currentPMT

(* C2 as stated: the remaining balances never increase along the rows, and
   the first is at most the loan principal. *)
C2_NonIncreasing ==
  \A j \in Rows : schedule[j].remainingBalance <= BalanceBefore(j)

(* C2 amended: for a loan principal in whole cents, a row whose principal
   component is not negative reports no larger a remaining balance than the
   row before it (than the loan principal, for the first row). *)
C2_NonIncreasingUnlessNegativePrincipal ==
  WholeCents(input.principal) =>
    \A j \in Rows :
      schedule[j].principal >= 0 => schedule[j].remainingBalance <= BalanceBefore(j)

(* C2 witness: a loan in whole cents whose balance a row with negative
   principal raised, followed by a row that lowers it *)
C2_Witness ==
  /\ WholeCents(input.principal)
  /\ \E j \in Rows :
       /\ schedule[j].principal < 0
       /\ schedule[j].remainingBalance > BalanceBefore(j)
       /\ j + 1 \in Rows
       /\ schedule[j + 1].principal > 0
       /\ schedule[j + 1].remainingBalance < schedule[j].remainingBalance

(* C3: the scheduled row of the final period reports a remaining balance of
   exactly 0, is the last row, and leaves the engine's balance at 0. *)
C3_FinalPeriodPaysOff ==
  \A j \in Rows :
    (schedule[j].eventType = "scheduled" /\ schedule[j].period = input.totalPeriods)
      => /\ schedule[j].remainingBalance = 0
         /\ j = Len(schedule)
         /\ currentBalance = 0

(* C3 witness: a loan of several periods with events whose final scheduled
   row was emitted *)
C3_Witness ==
  /\ input.totalPeriods > 1
  /\ Len(schedule) > input.totalPeriods
  /\ schedule[Len(schedule)].eventType = "scheduled"
  /\ schedule[Len(schedule)].period = input.totalPeriods
  /\ schedule[Len(schedule)].isAdjusted

(* C4: no row reports a negative remaining balance. *)
C4_NoNegativeBalance ==
  \A j \in Rows : schedule[j].remainingBalance >= 0

(* C4 witness: an extra repayment above the balance and the interest: the
   engine's balance is negative and the row reports 0 *)
C4_Witness ==
  /\ schedule # << >>
  /\ schedule[Len(schedule)].eventType = "extra"
  /\ currentBalance < 0
  /\ schedule[Len(schedule)].remainingBalance = 0

(* C5: once the balance is at or below 0.005 after a row, no step emits a row
   or changes the balance, the rate, the installment or the last transaction
   date; and a row that reports 0 is the last row. *)
C5_TerminatesWhenPaid ==
  [][ /\ (pc # "start" /\ currentBalance <= Epsilon)
         => UNCHANGED << schedule, currentBalance, currentAnnualRate, currentPMT,
                         lastTransactionDateStr >>
      /\ \A j \in 1 .. Len(schedule') :
           schedule'[j].remainingBalance = 0 => j = Len(schedule') ]_vars

(* C5 witness: the schedule was returned with the balance paid while periods
   and events of the current period were still left *)
C5_Witness ==
  /\ pc = "done"
  /\ schedule # << >>
  /\ currentBalance <= Epsilon
  /\ i <= input.totalPeriods
  /\ k <= Len(periodEvents)

(* The loan's own dates are in order: the disbursement date is not after the
   first scheduled date, and no scheduled date (the maturity date, for the
   final period) is before the scheduled date of the period before *)
ChronologicalTerms ==
  /\ input.loanDate <= ScheduledDate(1)
  /\ \A p \in 1 .. input.totalPeriods - 1 : ScheduledDate(p) <= ScheduledDate(p + 1)

DatesInOrder ==
  /\ \A j \in Rows : j > 1 => schedule[j - 1].date <= schedule[j].date
  /\ schedule # << >> => input.loanDate <= schedule[1].date
  /\ lastTransactionDateStr =
       IF schedule = << >> THEN input.loanDate ELSE schedule[Len(schedule)].date

(* C6 as stated: for any loan terms the dates of the rows never decrease in
   output order and the last transaction date, which starts at the
   disbursement date and is the date of the last row, never moves backwards. *)
C6_DateOrder == i >= 1 => DatesInOrder

(* C6 amended: the same, for loan terms whose own dates are in order. *)
C6_DateOrderForChronologicalTerms == (i >= 1 /\ ChronologicalTerms) => DatesInOrder

(* C6 witness: a finished schedule of a loan with dates in order, built from
   event lists the caller gave out of date order, holding rows of both kinds *)
C6_Witness ==
  /\ pc = "done"
  /\ ChronologicalTerms
  /\ Len(repayments) = 2 /\ repayments[1].date > repayments[2].date
  /\ Cardinality({ j \in Rows : schedule[j].eventType = "extra" }) = 2
  /\ \E j \in Rows : schedule[j].eventType = "scheduled"

KindRank(type) == CASE type = "rate" -> 1 [] type = "extra" -> 2 [] type = "scheduled" -> 3

(* C7: the events of a period are processed by date and, on the same date, in
   the kind order rate < extra < scheduled; so an extra row dated on the
   scheduled date precedes the scheduled row of its period. *)
C7_KindOrder ==
  /\ pc = "event" =>
       \A a, b \in 1 .. Len(periodEvents) :
         a < b => \/ periodEvents[a].date < periodEvents[b].date
                  \/ /\ periodEvents[a].date = periodEvents[b].date
                     /\ KindRank(periodEvents[a].type) <= KindRank(periodEvents[b].type)
  /\ \A j, l \in Rows :
       (j < l /\ schedule[j].period = schedule[l].period /\ schedule[j].date = schedule[l].date)
         => ~(schedule[j].eventType = "scheduled" /\ schedule[l].eventType = "extra")

(* C7 witness: a rate change, an extra repayment and the scheduled date share
   one date, and all three have been processed in that order *)
C7_Witness ==
  /\ pc = "event"
  /\ Len(periodEvents) = 3
  /\ k > 3
  /\ periodEvents[1].date = periodEvents[3].date
  /\ periodEvents[1].type = "rate" /\ periodEvents[2].type = "extra"
  /\ Len(schedule) >= 2
  /\ schedule[Len(schedule) - 1].eventType = "extra"
  /\ schedule[Len(schedule)].eventType = "scheduled"
  /\ schedule[Len(schedule) - 1].date = schedule[Len(schedule)].date

(* C8: a rate change sets the rate and emits no row, and leaves the balance,
   the last transaction date and the period unchanged; every row is tagged
   scheduled or extra. *)
C8_RateChangeFrame ==
  [][ /\ (HasEvent /\ event.type = "rate")
         => /\ currentAnnualRate' = event.val
            /\ UNCHANGED << schedule, currentBalance, lastTransactionDateStr, i >>
      /\ \A j \in 1 .. Len(schedule') : schedule'[j].eventType \in {"scheduled", "extra"}
    ]_vars

(* C8 witness: a rate change was applied before any row: the rate and the
   installment differ from the initial ones and the schedule is empty *)
C8_Witness ==
  /\ pc = "event"
  /\ k > 1
  /\ periodEvents[k - 1].type = "rate"
  /\ currentAnnualRate # input.annualRate
  /\ currentPMT # calculatePMT(input.principal, input.annualRate, input.totalPeriods)
  /\ schedule = << >>
  /\ lastTransactionDateStr = input.loanDate

AtScheduled == HasEvent /\ event.type = "scheduled"

(* The history pmtBasis is the engine state right after the rate change or
   extra repayment just processed *)
BasisIsLastEvent ==
  (pc = "event" /\ k > 1 /\ periodEvents[k - 1].type \in {"rate", "extra"})
    => /\ pmtBasis.byEvent
       /\ pmtBasis.balance = currentBalance
       /\ pmtBasis.rate = currentAnnualRate
       /\ pmtBasis.period = i

(* C9 as stated: when the scheduled event of period i is processed, the
   installment is calculatePMT at the balance and rate left by the most recent
   rate change or extra repayment over totalPeriods - i + 1 periods (the
   initial installment if there was none). *)
C9_InstallmentOverPeriodsOfScheduledRow ==
  AtScheduled =>
    currentPMT = IF pmtBasis.byEvent
                 THEN calculatePMT(pmtBasis.balance, pmtBasis.rate, input.totalPeriods - i + 1)
                 ELSE calculatePMT(input.principal, input.annualRate, input.totalPeriods)

(* C9 amended: when a scheduled event is processed, the installment is
   calculatePMT at the balance and rate left by the most recent rate change or
   extra repayment over totalPeriods - j + 1 periods, j being the period in
   which that event was processed (the initial installment if there was
   none). *)
C9_InstallmentOverPeriodsOfLastEvent ==
  /\ BasisIsLastEvent
  /\ AtScheduled =>
       currentPMT = IF pmtBasis.byEvent
                    THEN calculatePMT(pmtBasis.balance, pmtBasis.rate,
                                      input.totalPeriods - pmtBasis.period + 1)
                    ELSE calculatePMT(input.principal, input.annualRate, input.totalPeriods)

(* C9 witness: a scheduled event about to be processed in a period after the
   one of the most recent event, with an installment that is not the one over
   the periods left now *)
C9_Witness ==
  /\ AtScheduled
  /\ pmtBasis.byEvent
  /\ pmtBasis.period < i
  /\ currentPMT > 0
  /\ currentPMT # calculatePMT(pmtBasis.balance, pmtBasis.rate, input.totalPeriods - i + 1)

(* A single rate change lies strictly inside the accrual span of the row about
   to be emitted *)
RateChangeInSpan ==
  /\ HasEvent
  /\ event.type # "rate"
  /\ k > 1
  /\ periodEvents[k - 1].type = "rate"
  /\ (k > 2 => periodEvents[k - 2].type # "rate")
  /\ lastTransactionDateStr < periodEvents[k - 1].date
  /\ periodEvents[k - 1].date < event.date

(* Interest of the span with the previous rate up to the rate change and the
   new rate from it on *)
SplitInterest ==
  round2(calculateAccurateInterest(currentBalance, rateBefore,
                                   lastTransactionDateStr, periodEvents[k - 1].date)
         + calculateAccurateInterest(currentBalance, currentAnnualRate,
                                     periodEvents[k - 1].date, event.date),
         InterestDen)

(* C10: the row that follows a rate change dated strictly inside its accrual
   span carries interest at the previous rate for the days before the rate
   change and at the new rate from the rate change on. *)
C10_RateEffectiveFromItsDate ==
  [][ RateChangeInSpan => schedule'[Len(schedule')].interest = SplitInterest ]_vars

AtExtra == HasEvent /\ event.type = "extra"

(* Interest of section 4.3 from the last transaction date to the date of the
   event about to be processed, rounded to 2 decimals *)
ExactAccrual ==
  round2(calculateAccurateInterest(currentBalance, currentAnnualRate,
                                   lastTransactionDateStr, event.date),
         InterestDen)

(* C11: processing an extra repayment appends one row tagged extra with
   isAdjusted = true, dated at the event, whose payment is the event's amount,
   whose interest is the exact accrual from the last transaction date to the
   event date rounded to 2 decimals, and whose principal is payment - interest
   without a floor; afterwards the last transaction date is the event date. *)
C11_ExtraRow ==
  [][ AtExtra =>
        /\ Len(schedule') = Len(schedule) + 1
        /\ SubSeq(schedule', 1, Len(schedule)) = schedule
        /\ schedule'[Len(schedule')].eventType = "extra"
        /\ schedule'[Len(schedule')].isAdjusted
        /\ schedule'[Len(schedule')].date = event.date
        /\ schedule'[Len(schedule')].payment = event.val
        /\ schedule'[Len(schedule')].interest = ExactAccrual
        /\ schedule'[Len(schedule')].principal = event.val - ExactAccrual
        /\ lastTransactionDateStr' = event.date ]_vars

(* C11 witness: an extra row in a middle period, a month after the last
   transaction, whose accrued interest exceeds the payment (its principal is
   negative) and differs from a month's interest at rate / 12 *)
C11_Witness ==
  /\ pc = "event"
  /\ k > 1
  /\ periodEvents[k - 1].type = "extra"
  /\ i > 1 /\ i < input.totalPeriods
  /\ schedule # << >>
  /\ schedule[Len(schedule)].eventType = "extra"
  /\ schedule[Len(schedule)].principal < 0
  /\ schedule[Len(schedule)].interest > schedule[Len(schedule)].payment
  /\ Len(schedule) > 1
  /\ schedule[Len(schedule)].interest #
       round2(schedule[Len(schedule) - 1].remainingBalance * currentAnnualRate,
              MonthsPerYear * Percent)
  /\ lastTransactionDateStr = schedule[Len(schedule)].date

OrphansIgnored ==
  /\ \A j \in 1 .. Len(consumed) : ~Orphan(consumed[j])
  /\ (pc = "done" /\ earlier.called)
       => /\ schedule = earlier.schedule
          /\ currentAnnualRate = earlier.rate
          /\ currentPMT = earlier.pmt

(* C12 as stated: for any loan terms, an extra repayment or rate change dated
   before the disbursement date or after the maturity date is never processed,
   and the call returns the schedule (and ends with the rate and installment)
   of the call without these events. *)
C12_OrphansIgnored == OrphansIgnored

(* C12 amended: the same, for loan terms whose own dates are in order. *)
C12_OrphansIgnoredForChronologicalTerms == ChronologicalTerms => OrphansIgnored

(* C12 witness: a loan with dates in order was called with an event before the
   disbursement date and one after the maturity, and called again without
   them; both calls returned the same rows *)
C12_Witness ==
  /\ pc = "done"
  /\ earlier.called
  /\ ChronologicalTerms
  /\ \E j \in 1 .. Len(earlier.dropped) : earlier.dropped[j].date < input.loanDate
  /\ \E j \in 1 .. Len(earlier.dropped) : earlier.dropped[j].date > FinalDate
  /\ schedule # << >>
  /\ schedule = earlier.schedule

(* How often the value v occurs in the list s *)
Count(s, v) == Cardinality({ j \in 1 .. Len(s) : s[j] = v })

(* The extra rows of the repayment e: those with its date and amount *)
ExtraRowsOf(e) ==
  Cardinality({ j \in Rows : /\ schedule[j].eventType = "extra"
                             /\ schedule[j].date = e.date
                             /\ schedule[j].payment = e.amount })

(* Generation ended, the balance paid, before the repayment e was reached *)
TerminatedBefore(e) ==
  /\ schedule # << >>
  /\ currentBalance <= Epsilon
  /\ schedule[Len(schedule)].date <= e.date
  /\ schedule[Len(schedule)].date = e.date => schedule[Len(schedule)].eventType = "extra"

(* C13: an extra repayment is processed at most as often as the caller
   supplied it, each time giving one row, and extra rows of one date are in one
   period; at the end every extra repayment dated after the disbursement date
   and on or before the final scheduled date has its row, for each time it was
   supplied, unless the balance was paid before it was reached; a rate change
   is applied at most as often as it was supplied. *)
C13_ConsumedOnce ==
  /\ \A e \in RepaymentEvent :
       /\ Count(consumed, [type |-> "extra", date |-> e.date, val |-> e.amount])
            <= Count(repayments, e)
       /\ ExtraRowsOf(e) = Count(consumed, [type |-> "extra", date |-> e.date, val |-> e.amount])
       /\ (pc = "done" /\ ~NoLoan(input.principal)
              /\ e.date > input.loanDate /\ e.date <= FinalDate)
            => (ExtraRowsOf(e) = Count(repayments, e) \/ TerminatedBefore(e))
  /\ \A j, l \in Rows :
       (schedule[j].eventType = "extra" /\ schedule[l].eventType = "extra"
          /\ schedule[j].date = schedule[l].date)
         => schedule[j].period = schedule[l].period
  /\ \A r \in RateChangeEvent :
       Count(consumed, [type |-> "rate", date |-> r.date, val |-> r.newAnnualRate])
         <= Count(rateChanges, r)

(* C13 witness: the caller supplied the same extra repayment twice, dated on a
   scheduled date, and the returned schedule holds two rows for it, followed
   by rows of a later period *)
C13_Witness ==
  /\ pc = "done"
  /\ Len(repayments) = 2
  /\ repayments[1] = repayments[2]
  /\ ExtraRowsOf(repayments[1]) = 2
  /\ repayments[1].date = ScheduledDate(1)
  /\ schedule[Len(schedule)].period > 1

(* C14: a second call with the same loan terms and event lists returns the
   rows of the first, whatever the day and the host of either call and
   whether or not the dates can be parsed. *)
C14_Deterministic ==
  (pc = "done" /\ earlier.called) => schedule = earlier.schedule

(* A loan that is none: the principal is zero, negative or missing, or there
   are no periods *)
Degenerate == NoLoan(input.principal) \/ input.totalPeriods <= 0

(* C15: a call for a degenerate loan never enters the event loop and has no
   row, whatever events were supplied, so it returns the empty schedule; and
   an installment computed by calculatePMT for a balance <= 0 or over a period
   count <= 0 is 0. *)
C15_FailSoft ==
  /\ Degenerate => (schedule = << >> /\ pc \in {"start", "period", "done"})
  /\ (pmtBasis.balance <= 0 \/ input.totalPeriods - pmtBasis.period + 1 <= 0)
       => currentPMT = 0

(* C15 witness: a call with a positive principal, no periods and an event has
   returned the empty schedule, and its installment is 0 *)
C15_Witness ==
  /\ pc = "done"
  /\ input.principal > 0
  /\ input.totalPeriods <= 0
  /\ Len(repayments) + Len(rateChanges) > 0
  /\ pmtBasis.balance > 0
  /\ schedule = << >>
  /\ currentPMT = 0

ZeroRate == input.annualRate = 0 /\ rateChanges = << >>

(* The installment is the balance of its computation divided by the periods of
   its computation, rounded to 2 decimals *)
InstallmentIsEvenSplit ==
  (pc # "start" /\ pmtBasis.balance > 0 /\ pmtBasis.period <= input.totalPeriods)
    => currentPMT = round2(pmtBasis.balance, input.totalPeriods - pmtBasis.period + 1)

(* C16 as stated: at an annual rate of 0 with no rate change, calculatePMT
   returns principal / periods rounded to 2 decimals, every row has interest
   0, and the payment of every row equals its principal. *)
C16_ZeroRate ==
  ZeroRate =>
    /\ InstallmentIsEvenSplit
    /\ \A j \in Rows : schedule[j].interest = 0 /\ schedule[j].payment = schedule[j].principal

(* C16 amended: at an annual rate of 0 with no rate change, calculatePMT
   returns principal / periods rounded to 2 decimals, every row has interest
   0, and the payment of every row equals its principal rounded to 2 decimals:
   its principal, for a loan principal in whole cents. *)
C16_ZeroRateToTheCent ==
  ZeroRate =>
    /\ InstallmentIsEvenSplit
    /\ \A j \in Rows :
         /\ schedule[j].interest = 0
         /\ schedule[j].payment = round2(schedule[j].principal, 1)
         /\ WholeCents(input.principal) => schedule[j].payment = schedule[j].principal

(* C16 witness: a finished schedule at rate 0 of a loan in whole cents with an
   extra row and several scheduled rows, whose installment was recomputed to
   an amount that is no whole number of cents before rounding *)
C16_Witness ==
  /\ ZeroRate
  /\ pc = "done"
  /\ WholeCents(input.principal)
  /\ \E j \in Rows : schedule[j].eventType = "extra" /\ schedule[j].principal > 0
  /\ Cardinality({ j \in Rows : schedule[j].eventType = "scheduled" }) >= 2
  /\ pmtBasis.byEvent
  /\ pmtBasis.balance > 0
  /\ pmtBasis.balance % (Cent * (input.totalPeriods - pmtBasis.period + 1)) # 0

NoEvents == repayments = << >> /\ rateChanges = << >>

(* A loan with a positive principal and at least one period, without events *)
PlainLoan == NoEvents /\ input.principal > 0 /\ input.totalPeriods >= 1

(* The rows are scheduled rows that are not adjusted, numbered from 1 *)
PlainRows ==
  \A j \in Rows : /\ schedule[j].eventType = "scheduled"
                  /\ ~schedule[j].isAdjusted
                  /\ schedule[j].period = j

(* C17 as stated: without events, for every positive principal and every
   totalPeriods >= 1, the call returns exactly totalPeriods rows, all
   scheduled and not adjusted, with the period indexes 1 .. totalPeriods in
   order, and the last row reports a remaining balance of 0. *)
C17_OneRowPerPeriod ==
  PlainLoan =>
    /\ PlainRows
    /\ pc = "done" => /\ Len(schedule) = input.totalPeriods
                      /\ schedule[Len(schedule)].remainingBalance = 0

(* C17 amended: without events, for every positive principal and every
   totalPeriods >= 1, the rows are scheduled and not adjusted, with the period
   indexes 1, 2, ... in order, and there are at most totalPeriods of them; a
   principal above 0.005 has rows and the last reports a remaining balance of
   0; there are fewer than totalPeriods rows only for a principal of at most
   0.005 (no row), or when the last row met a balance below the installment
   plus 0.05 and paid it off. *)
C17_OneRowPerPeriodUntilPaid ==
  PlainLoan =>
    /\ PlainRows
    /\ Len(schedule) <= input.totalPeriods
    /\ pc = "done" =>
         /\ input.principal > Epsilon
              => (schedule # << >> /\ schedule[Len(schedule)].remainingBalance = 0)
         /\ Len(schedule) < input.totalPeriods
              => \/ (schedule = << >> /\ input.principal <= Epsilon)
                 \/ /\ schedule # << >>
                    /\ schedule[Len(schedule)].principal = BalanceBefore(Len(schedule))
                    /\ BalanceBefore(Len(schedule)) < currentPMT + SnapThreshold

(* C17 witness: a loan at a positive rate over 3 or more periods without
   events has returned one row per period, each with a smaller balance *)
C17_Witness ==
  /\ PlainLoan
  /\ pc = "done"
  /\ input.annualRate > 0
  /\ input.totalPeriods >= 3
  /\ Len(schedule) = input.totalPeriods
  /\ \A j \in Rows : schedule[j].remainingBalance < BalanceBefore(j)
  /\ schedule[Len(schedule)].remainingBalance = 0

(* The schedule is one scheduled row that pays the whole loan principal *)
SinglePayoffRow ==
  /\ Len(schedule) = 1
  /\ schedule[1].eventType = "scheduled"
  /\ schedule[1].period = 1
  /\ schedule[1].principal = input.principal
  /\ schedule[1].remainingBalance = 0

(* C18 as stated: a loan of 1 period without events, for every positive
   principal and every annual rate >= 0, returns a single scheduled row whose
   principal is the whole loan principal and whose remaining balance is 0. *)
C18_SinglePeriod ==
  (PlainLoan /\ input.totalPeriods = 1 /\ input.annualRate >= 0 /\ pc = "done")
    => SinglePayoffRow

(* C18 amended: the same, for every principal above 0.005. *)
C18_SinglePeriodAboveEpsilon ==
  (PlainLoan /\ input.totalPeriods = 1 /\ input.annualRate >= 0 /\ pc = "done"
     /\ input.principal > Epsilon)
    => SinglePayoffRow

(* C18 witness: a loan of 1 period at a positive rate, with a principal that
   is no whole number of cents, has returned its single row, which carries
   interest and pays the whole principal *)
C18_Witness ==
  /\ PlainLoan
  /\ input.totalPeriods = 1
  /\ input.annualRate > 0
  /\ ~WholeCents(input.principal)
  /\ pc = "done"
  /\ SinglePayoffRow
  /\ schedule[1].interest > 0
  /\ schedule[1].principal # currentPMT - schedule[1].interest

(* C19: no step of a call changes the caller's repayments or rateChanges
   arrays (their elements and their order) or the loan terms record; the
   sorted lists the engine works on are its own. *)
C19_InputsUnchanged ==
  [][ /\ UNCHANGED << input, repayments, rateChanges >>
      /\ pc' \in {"period", "event"}
           => /\ sortedRepayments' = SortByDate(repayments)
              /\ sortedRateChanges' = SortByDate(rateChanges) ]_vars

(* C19 witness: the call has returned rows for two extra repayments that the
   caller supplied, and still holds, with the later one first *)
C19_Witness ==
  /\ pc = "done"
  /\ Len(repayments) = 2
  /\ repayments[1].date > repayments[2].date
  /\ sortedRepayments = << repayments[2], repayments[1] >>
  /\ Len(consumed) = 2
  /\ consumed[1].date = repayments[2].date
  /\ consumed[2].date = repayments[1].date
  /\ Cardinality({ j \in Rows : schedule[j].eventType = "extra" }) = 2

(* C20: whenever an event of period i is processed the period count
   totalPeriods - i + 1 is at least 1, so every installment recomputed by a
   rate change or an extra repayment was computed over at least 1 period; and
   calculatePMT asked for an installment over no periods (totalPeriods <= 0 at
   the start of a call) answers 0 instead of dividing. *)
C20_PeriodsAtLeastOne ==
  /\ HasEvent => RemainingPeriods(i) >= 1
  /\ pmtBasis.byEvent => input.totalPeriods - pmtBasis.period + 1 >= 1
  /\ (pc # "start" /\ ~NoLoan(input.principal) /\ input.totalPeriods <= 0)
       => (~pmtBasis.byEvent /\ currentPMT = 0)

(* C20 witness: an event of the final period has just recomputed the
   installment, over 1 period, for a loan of several periods *)
C20_Witness ==
  /\ pc = "event"
  /\ k > 1
  /\ input.totalPeriods > 1
  /\ i = input.totalPeriods
  /\ pmtBasis.byEvent
  /\ pmtBasis.period = i
  /\ RemainingPeriods(i) = 1
  /\ currentPMT > 0

(* The last transaction date at the start of period p, read from the rows: the
   date of the last row of an earlier period, or the disbursement date *)
WindowStart(p) ==
  LET before == { j \in Rows : schedule[j].period < p }
  IN  IF before = {} THEN input.loanDate
      ELSE schedule[CHOOSE j \in before : \A l \in before : l <= j].date

(* A rate change or extra repayment the caller supplied is dated in (lo, hi] *)
SuppliedIn(lo, hi) ==
  \/ \E j \in 1 .. Len(repayments) : repayments[j].date > lo /\ repayments[j].date <= hi
  \/ \E j \in 1 .. Len(rateChanges) : rateChanges[j].date > lo /\ rateChanges[j].date <= hi

(* C21: a scheduled row has isAdjusted = true exactly when the caller supplied
   a rate change or an extra repayment dated after the last transaction date
   at the start of the row's period and on or before the row's scheduled
   date; and a period starts with the last transaction date the rows show. *)
C21_AdjustedIffEventInWindow ==
  /\ (pc = "event" /\ k = 1) => lastTransactionDateStr = WindowStart(i)
  /\ \A j \in Rows :
       schedule[j].eventType = "scheduled"
         => (schedule[j].isAdjusted
               <=> SuppliedIn(WindowStart(schedule[j].period), schedule[j].date))

(* C21 witness: a finished schedule with a scheduled row that is adjusted by
   nothing but a rate change dated on its scheduled date, and a scheduled row
   of another period that is not adjusted *)
C21_Witness ==
  /\ pc = "done"
  /\ repayments = << >>
  /\ \E j \in Rows :
       /\ schedule[j].eventType = "scheduled"
       /\ schedule[j].isAdjusted
       /\ \A r \in 1 .. Len(rateChanges) : rateChanges[r].date = schedule[j].date
  /\ \E j \in Rows : schedule[j].eventType = "scheduled" /\ ~schedule[j].isAdjusted


----------------------------------------------------------------------------
(* The interest of a scheduled row *)

(* The state reached by writing a scheduled row: the row is the last of the
   schedule, the rate is the one it accrued at and periodEvents is its
   period's event list *)
JustScheduled == pc = "event" /\ k > 1 /\ periodEvents[k - 1].type = "scheduled"

(* The last transaction date in force when row j was written: the date of the
   row before it, the disbursement date for the first row *)
LastTransactionBefore(j) == IF j = 1 THEN input.loanDate ELSE schedule[j - 1].date

(* The whole-month-plus-days accrual between two calendar dates, as the
   numerator over InterestDen: whole months at rate / 12, the days left after
   them at rate / 360 *)
HybridAccrual(balance, annualRate, startDate, endDate) ==
  IF startDate >= endDate THEN 0
  ELSE LET fullMonths == FullMonths(startDate, endDate, 0)
           extraDays == Max(0, endDate - addMonths(startDate, fullMonths))
       IN  balance * annualRate
             * (fullMonths * (DaysPerYear \div MonthsPerYear) + extraDays)

(* The interest the rule gives the scheduled row written last *)
RuleInterest ==
  LET j == Len(schedule)
      row == schedule[j]
      last == LastTransactionBefore(j)
      gap == row.date - last
      standard == /\ row.period > 1
                  /\ row.period < input.totalPeriods
                  /\ Len(periodEvents) = 1
                  /\ gap >= StdMonthMinDays
                  /\ gap <= StdMonthMaxDays
  IN  IF standard
      THEN round2(BalanceBefore(j) * currentAnnualRate, MonthsPerYear * Percent)
      ELSE round2(HybridAccrual(BalanceBefore(j), currentAnnualRate, last, row.date),
                  InterestDen)

(* C22: the interest of a scheduled row is the standard-month amount
   round2(balance * rate / 12) exactly when its period is neither the first
   nor the last, the period's event list holds the scheduled event alone and
   the last transaction date lies 28 to 31 days before the scheduled date;
   in every other case it is the accrual of whole months at rate / 12 plus
   the remaining days at rate / 360 between the two dates, rounded to 2
   decimals. *)
C22_ScheduledInterest ==
  JustScheduled => schedule[Len(schedule)].interest = RuleInterest

(* C22 on a host at or east of UTC *)
C22_ScheduledInterestAtUTC ==
  (JustScheduled /\ tz = 0) => schedule[Len(schedule)].interest = RuleInterest


----------------------------------------------------------------------------
(* The payoff snap *)

(* C23: after any scheduled row the remaining balance is exactly 0 or at
   least 0.05, and the principal of a scheduled row never exceeds the balance
   outstanding before it: an installment whose rounded principal would leave
   less than 0.05, or would exceed the balance, pays the balance in full. *)
C23_PayoffSnap ==
  \A j \in Rows :
    schedule[j].eventType = "scheduled"
      => /\ schedule[j].remainingBalance = 0 \/ schedule[j].remainingBalance >= SnapThreshold
         /\ schedule[j].principal <= BalanceBefore(j)
         /\ schedule[j].remainingBalance = 0 => schedule[j].principal = BalanceBefore(j)

(* The rounded principal of the scheduled row written last, before the snap *)
RoundedPrincipalOfLast ==
  LET j == Len(schedule)
      den == MonthsPerYear * Percent
  IN  round2(IF schedule[j].period = 1
             THEN currentPMT * den - BalanceBefore(j) * currentAnnualRate
             ELSE IF schedule[j].period = input.totalPeriods \/ BalanceBefore(j) < currentPMT
                  THEN BalanceBefore(j) * den
                  ELSE (currentPMT - schedule[j].interest) * den,
             den)

(* C23 witness: a scheduled row whose rounded principal would have left a
   positive amount below 0.05 and that pays the balance in full, after a
   scheduled row that leaves 0.05 or more *)
C23_Witness ==
  /\ JustScheduled
  /\ LET j == Len(schedule)
     IN  /\ RoundedPrincipalOfLast < BalanceBefore(j)
         /\ schedule[j].principal = BalanceBefore(j)
         /\ schedule[j].remainingBalance = 0
         /\ \E l \in 1 .. j - 1 :
              /\ schedule[l].eventType = "scheduled"
              /\ schedule[l].remainingBalance >= SnapThreshold


----------------------------------------------------------------------------
(* The dates of the scheduled rows *)

(* The date the rule gives the scheduled row of period p: the maturity date
   for the final period when one is supplied, else the day of the month of
   the first installment in the month p - 1 months after it, or the last day
   of that month when it has no such day *)
RuleDate(p) ==
  IF p = input.totalPeriods /\ input.maturityDate # NoDate
  THEN input.maturityDate
  ELSE LET m == MonthOf(input.firstPaymentDate) + (p - 1)
           day == DayOfMonth(input.firstPaymentDate)
       IN  MonthStart(m) + (IF day > DaysInMonth(m) THEN DaysInMonth(m) ELSE day) - 1

DatedByRule ==
  /\ \A j \in Rows :
       schedule[j].eventType = "scheduled" => schedule[j].date = RuleDate(schedule[j].period)
  /\ \A j \in Rows :
       (/\ schedule[j].eventType = "scheduled"
        /\ schedule[j].period = 1
        /\ (input.totalPeriods > 1 \/ input.maturityDate = NoDate))
         => schedule[j].date = input.firstPaymentDate
  /\ \A j, l \in Rows :
       (/\ schedule[j].eventType = "scheduled"
        /\ schedule[l].eventType = "scheduled"
        /\ schedule[j].period < schedule[l].period
        /\ schedule[l].period < input.totalPeriods)
         => schedule[j].date < schedule[l].date

(* C24: the scheduled row of the final period is dated at the supplied
   maturity date; the scheduled row of every other period i is dated in the
   month i - 1 months after the first installment's, on the first
   installment's day of the month or on the last day of that month when it
   has no such day; period 1's scheduled date is the first installment date
   itself on every host, and the scheduled dates of periods
   1 .. totalPeriods - 1 are strictly increasing. *)
C24_ScheduledDates == DatedByRule

(* C24 on a host at or east of UTC *)
C24_ScheduledDatesAtUTC == tz = 0 => DatedByRule


----------------------------------------------------------------------------
(* The structure of the row sequence *)

ScheduledRows == { j \in Rows : schedule[j].eventType = "scheduled" }
ExtraRows == { j \in Rows : schedule[j].eventType = "extra" }

(* C25: along the row sequence the period indexes never decrease and lie in
   1 .. totalPeriods; a period index carries at most one scheduled row, which
   comes after every extra row of the same period index; so the schedule has
   at most totalPeriods scheduled rows and at most as many extra rows as
   extra repayments were supplied. *)
C25_RowStructure ==
  /\ \A j \in Rows : schedule[j].period \in 1 .. input.totalPeriods
  /\ \A j, l \in Rows : j < l => schedule[j].period <= schedule[l].period
  /\ \A j, l \in ScheduledRows : schedule[j].period = schedule[l].period => j = l
  /\ \A j \in ExtraRows : \A l \in ScheduledRows :
       schedule[j].period = schedule[l].period => j < l
  /\ Cardinality(ScheduledRows) <= input.totalPeriods
  /\ Cardinality(ExtraRows) <= Len(repayments)

(* C25 witness: a returned schedule of three scheduled rows and two extra
   rows, one of them dated on the scheduled date of its period and written
   ahead of that period's scheduled row *)
C25_Witness ==
  /\ pc = "done"
  /\ Cardinality(ScheduledRows) = MaxPeriods
  /\ Cardinality(ExtraRows) = MaxEvents
  /\ \E j \in ExtraRows :
       /\ j + 1 \in ScheduledRows
       /\ schedule[j + 1].period = schedule[j].period
       /\ schedule[j + 1].date = schedule[j].date


----------------------------------------------------------------------------
(* The continuity of the balance *)

(* The sum of the principal components of the first n rows *)
RECURSIVE PrincipalSum(_)
PrincipalSum(n) == IF n = 0 THEN 0 ELSE PrincipalSum(n - 1) + schedule[n].principal

(* No extra repayment pays more principal than was outstanding *)
NoOverpayment == \A j \in ExtraRows : schedule[j].principal <= BalanceBefore(j)

(* The schedule was returned and its last row reports the balance 0 *)
EndsPaid ==
  pc = "done" /\ schedule # << >> /\ schedule[Len(schedule)].remainingBalance = 0

(* C26: for a loan principal in whole cents, the remainingBalance of every
   row is max(0, previous balance - the row's principal), the previous
   balance being the remainingBalance of the row before (the loan principal
   for the first row); and when no extra repayment overpays the loan, the
   principal components of a schedule that ends at balance 0 sum to the loan
   principal. *)
C26_BalanceContinuity ==
  WholeCents(input.principal) =>
    /\ \A j \in Rows :
         schedule[j].remainingBalance = Max(0, BalanceBefore(j) - schedule[j].principal)
    /\ (EndsPaid /\ NoOverpayment) => PrincipalSum(Len(schedule)) = input.principal

(* C26 witness: a loan of whole cents returned paid off through three
   scheduled rows and two extra rows without overpayment, one extra row with
   a negative principal component *)
C26_Witness ==
  /\ WholeCents(input.principal)
  /\ EndsPaid
  /\ NoOverpayment
  /\ Cardinality(ScheduledRows) = MaxPeriods
  /\ Cardinality(ExtraRows) = MaxEvents
  /\ \E j \in ExtraRows : schedule[j].principal < 0
  /\ PrincipalSum(Len(schedule)) = input.principal

====
